---- MODULE Spec2Model ----
(***************************************************************************)
(* Model of package structmerge (structmerge.go): Merge / mergeValues,     *)
(* shouldInclude and isZero, over a small universe of record types.        *)
(*                                                                         *)
(* Strings that the code inspects (field names, qualified paths, include   *)
(* and exclude entries) are sequences of one-character strings, so that    *)
(* strings.HasPrefix and strings.Contains are computed, not assumed.       *)
(* A struct value is the sequence of its field values in declaration       *)
(* order; a leaf value is a small natural number whose meaning depends on  *)
(* the field's reflect.Kind (see ValueLen, isZero).                       *)
(***************************************************************************)
EXTENDS Integers, Sequences, FiniteSets, TLC

VARIABLES dst, src, cfg, ov, pre, err, calls

vars == <<dst, src, cfg, ov, pre, err, calls>>

(***************************************************************************)
(* Bounds of the model.                                                    *)
(***************************************************************************)
MaxInclude == 2
MaxExclude == 1
MaxCalls == 2

(***************************************************************************)
(* Errors (structmerge.go:9-13) and the other outcomes of a call.          *)
(***************************************************************************)
ErrInvalidDestination == "destination must be a pointer to a struct"
ErrInvalidSource == "source must be a struct"
ErrTypeMismatch == "source and destination types do not match"
NoError == "nil"
OverrideError == "error returned by a Merger"
Panic == "panic"
NotCalled == "not called"

(***************************************************************************)
(* MergeOption (structmerge.go:38-47).                                     *)
(***************************************************************************)
IncludeAll == "IncludeAll"
ExcludeEmpty == "ExcludeEmpty"
OverwriteEmpty == "OverwriteEmpty"
MergeOption == {IncludeAll, ExcludeEmpty, OverwriteEmpty}

(***************************************************************************)
(* Field names, as character sequences.                                    *)
(***************************************************************************)
Dot == <<".">>
nCount == <<"C", "o", "u", "n", "t">>
nCountry == <<"C", "o", "u", "n", "t", "r", "y">>
nAddress == <<"A", "d", "d", "r", "e", "s", "s">>
nHidden == <<"h", "i", "d", "d", "e", "n">>
nCity == <<"C", "i", "t", "y">>
nGeo == <<"G", "e", "o">>
nLat == <<"L", "a", "t">>
nDate == <<"D", "a", "t", "e">>
nAt == <<"A", "t">>
nData == <<"D", "a", "t", "a">>
nName == <<"N", "a", "m", "e">>
nGeoPriv == <<"g", "e", "o">>
nSecret == <<"s", "e", "c", "r", "e", "t">>
nNote == <<"N", "o", "t", "e">>
nActive == <<"A", "c", "t", "i", "v", "e">>
nAge == <<"A", "g", "e">>
nRef == <<"R", "e", "f">>
nTags == <<"T", "a", "g", "s">>
nBlob == <<"B", "l", "o", "b">>
nRate == <<"R", "a", "t", "e">>
nFoo == <<"F", "o", "o">>

(***************************************************************************)
(* The record types of the universe.  A field is its reflect.StructField   *)
(* as far as the code reads it: Name, whether it is exported, the Kind of  *)
(* its type and the type's name.                                           *)
(*   Person  { Count uint; Country string; Address Address; hidden string }*)
(*   Address { City string; Geo Geo }      Geo { Lat float64 }             *)
(*   Plan    { Date Date; At time.Time; Data json.RawMessage }             *)
(*   Vault   { Name string; geo Geo; secret Date; Note string }            *)
(*   Kinds   { Active bool; Age int; Ref *int; Tags map[string]string;     *)
(*             Blob [2]byte; Rate complex128 }                             *)
(*   Foo     { Foo string }                                                *)
(*   Date    a struct without exported fields whose pointer implements     *)
(*           Merger (type Date time.Time of the tests); Time is time.Time. *)
(*           Values of both are opaque.                                    *)
(***************************************************************************)
F(name, exported, kind, type) ==
    [Name |-> name, Exported |-> exported, Kind |-> kind, Type |-> type]

Fields(T) ==
    CASE T = "Person" -> << F(nCount, TRUE, "Uint", "uint"),
                            F(nCountry, TRUE, "String", "string"),
                            F(nAddress, TRUE, "Struct", "Address"),
                            F(nHidden, FALSE, "String", "string") >>
      [] T = "Address" -> << F(nCity, TRUE, "String", "string"),
                             F(nGeo, TRUE, "Struct", "Geo") >>
      [] T = "Geo" -> << F(nLat, TRUE, "Float64", "float64") >>
      [] T = "Plan" -> << F(nDate, TRUE, "Struct", "Date"),
                          F(nAt, TRUE, "Struct", "Time"),
                          F(nData, TRUE, "Slice", "RawMessage") >>
      [] T = "Vault" -> << F(nName, TRUE, "String", "string"),
                           F(nGeoPriv, FALSE, "Struct", "Geo"),
                           F(nSecret, FALSE, "Struct", "Date"),
                           F(nNote, TRUE, "String", "string") >>
      [] T = "Kinds" -> << F(nActive, TRUE, "Bool", "bool"),
                           F(nAge, TRUE, "Int", "int"),
                           F(nRef, TRUE, "Ptr", "*int"),
                           F(nTags, TRUE, "Map", "map[string]string"),
                           F(nBlob, TRUE, "Array", "[2]byte"),
                           F(nRate, TRUE, "Complex128", "complex128") >>
      [] T = "Foo" -> << F(nFoo, TRUE, "String", "string") >>
      [] OTHER -> << >>

NumField(T) == Len(Fields(T))

\* Struct types whose values the model keeps opaque (no field is visible).
Opaque(T) == T \in {"Date", "Time"}

\* dst.Interface().(time.Time) succeeds
IsTime(T) == T = "Time"

\* reflect.PtrTo(T).Implements(Merger)
Implements(T) == T = "Date"

(***************************************************************************)
(* reflect.Value of an argument, as far as mergeValues reads it.           *)
(*   shape "invalid" : reflect.ValueOf(nil)                                *)
(*   shape "int"     : an int                  shape "ptrint" : a *int     *)
(*   shape "struct"  : a struct value of type typ                          *)
(*   shape "ptr"     : a *typ, nil when isnil                              *)
(*   shape "ptrptr"  : a **typ, non-nil; isnil says the *typ it points to  *)
(*                     is nil                                              *)
(***************************************************************************)
Value(shape, typ, isnil, val) ==
    [shape |-> shape, typ |-> typ, isnil |-> isnil, val |-> val]

\* v.Kind()
Kind(v) ==
    CASE v.shape = "invalid" -> "Invalid"
      [] v.shape = "int" -> "Int"
      [] v.shape = "struct" -> "Struct"
      [] OTHER -> "Ptr"

\* v.Elem().Kind() of a pointer: Elem of a nil pointer is the zero Value.
ElemKind(v) ==
    CASE v.shape = "ptr" -> IF v.isnil THEN "Invalid" ELSE "Struct"
      [] v.shape = "ptrptr" -> "Ptr"
      [] v.shape = "ptrint" -> "Int"
      [] OTHER -> "Invalid"

\* v.IsNil() of a pointer
IsNil(v) == v.shape = "ptr" /\ v.isnil

\* dstField.Addr() and srcField of a struct-kind field
Addr(T, val) == Value("ptr", T, FALSE, val)
StructValue(T, val) == Value("struct", T, FALSE, val)

\* dstField.CanSet(): the walk only enters settable records, so a field is
\* read-only exactly when it is unexported itself.
CanSet(field) == field.Exported

(***************************************************************************)
(* Leaf values.  v.Len() for the kinds isZero measures: a string is        *)
(* identified with its length; a slice or map is 0 (nil), 1 (empty,        *)
(* non-nil), 2 or 3 (two different ones of one element); a [2]byte has     *)
(* length 2.                                                               *)
(***************************************************************************)
ValueLen(kind, v) ==
    CASE kind = "String" -> v
      [] kind \in {"Slice", "Map"} -> IF v <= 1 THEN 0 ELSE 1
      [] kind = "Array" -> 2
      [] OTHER -> 0

\* isZero (structmerge.go:180-197)
isZero(kind, v) ==
    CASE kind \in {"Array", "Map", "Slice", "String"} -> ValueLen(kind, v) = 0
      [] kind = "Bool" -> v = 0
      [] kind \in {"Int", "Int8", "Int16", "Int32", "Int64"} -> v = 0
      [] kind \in {"Uint", "Uint8", "Uint16", "Uint32", "Uint64"} -> v = 0
      [] kind \in {"Float32", "Float64"} -> v = 0
      [] kind \in {"Interface", "Ptr"} -> v = 0
      [] OTHER -> FALSE

(***************************************************************************)
(* strings.HasPrefix, strings.Contains and shouldInclude                   *)
(* (structmerge.go:163-178).                                               *)
(***************************************************************************)
HasPrefix(s, p) == Len(p) <= Len(s) /\ SubSeq(s, 1, Len(p)) = p

Contains(s, ch) == \E i \in 1..Len(s) : s[i] = ch

shouldInclude(fullFieldName, includeMap) ==
    \/ fullFieldName \in includeMap
    \/ /\ ~Contains(fullFieldName, ".")
       /\ \E key \in includeMap : HasPrefix(key, fullFieldName)

(***************************************************************************)
(* A Merger implementation is code of the caller: o.sets says whether it   *)
(* copies the source into its receiver or leaves the receiver alone,       *)
(* o.fails whether it returns an error.                                    *)
(***************************************************************************)
Overrides == [sets : {"copy", "keep"}, fails : BOOLEAN]

Override(o, d, s) ==
    [val |-> IF o.sets = "copy" THEN s ELSE d,
     err |-> IF o.fails THEN OverrideError ELSE NoError]

(***************************************************************************)
(* Config (structmerge.go:50-54).  Include and Exclude are kept as the     *)
(* sets includeMap and excludeMap that mergeValues builds from them        *)
(* (structmerge.go:99-107); len(cfg.Include) > 0 is Include # {}.          *)
(***************************************************************************)
Config(option, include, exclude) ==
    [Option |-> option, Include |-> include, Exclude |-> exclude]

\* Merge's defaultConfig (structmerge.go:59-62); cfgArgs is the variadic
\* cfg ...Config.
DefaultConfig(cfgArgs) ==
    IF Len(cfgArgs) > 0 THEN cfgArgs[1] ELSE Config(IncludeAll, {}, {})

(***************************************************************************)
(* The argument checks of mergeValues (structmerge.go:67-82), in the       *)
(* code's order.  A mutant that looks at the source first stands before.   *)
(***************************************************************************)
checkArgumentsSourceFirst(d, s) ==
    IF Kind(s) # "Struct" THEN ErrInvalidSource
    ELSE IF Kind(d) # "Ptr" \/ ElemKind(d) # "Struct" THEN ErrInvalidDestination
    ELSE IF d.typ # s.typ THEN ErrTypeMismatch
    ELSE NoError

checkArguments(d, s) ==
    IF Kind(d) # "Ptr" \/ ElemKind(d) # "Struct" THEN ErrInvalidDestination
    \* dst.IsNil() can no longer hold here; were it to, dst.Set on the
    \* unaddressable reflect.ValueOf(dst) panics (structmerge.go:71-73).
    ELSE IF IsNil(d) THEN Panic
    ELSE IF Kind(s) # "Struct" THEN ErrInvalidSource
    ELSE IF d.typ # s.typ THEN ErrTypeMismatch
    ELSE NoError

(***************************************************************************)
(* The policy switch of a leaf field (structmerge.go:146-154): whether     *)
(* dstField.Set(srcField) runs.  Mutants stand before it.                  *)
(***************************************************************************)
shouldSetSwapped(option, kind, dstField, srcField) ==
    CASE option = ExcludeEmpty -> isZero(kind, dstField)
      [] option = OverwriteEmpty -> ~isZero(kind, srcField)
      [] OTHER -> TRUE

shouldSetNonEmptySource(option, kind, dstField, srcField) ==
    CASE option = ExcludeEmpty -> ~isZero(kind, srcField)
      [] option = OverwriteEmpty ->
            isZero(kind, dstField) /\ ~isZero(kind, srcField)
      [] OTHER -> TRUE

shouldSetDefaultSkipsEmpty(option, kind, dstField, srcField) ==
    ~isZero(kind, srcField)

shouldSet(option, kind, dstField, srcField) ==
    LET set == CASE option = ExcludeEmpty -> ~isZero(kind, srcField)
                 [] option = OverwriteEmpty -> isZero(kind, dstField)
                 [] OTHER -> TRUE
    IN  set \/ option = IncludeAll

\* dstField.Set(srcField) (structmerge.go:155, and :87 for a time.Time): the
\* field becomes the source's value.  The mutant combines the two values
\* instead of replacing one by the other.
SetCombined(dstField, srcField) == dstField + srcField

Set(dstField, srcField) == srcField

\* excludeMap[fullFieldName] (structmerge.go:119); the mutant lets an
\* include entry win over an exclude entry.
excludedUnlessIncluded(fullFieldName, c) ==
    fullFieldName \in c.Exclude /\ fullFieldName \notin c.Include

excluded(fullFieldName, c) == fullFieldName \in c.Exclude

\* The Merger of the whole record (structmerge.go:94-97): its result is
\* returned.  The mutant drops the error as the field-level call does.
recordMergerSwallowed(o, d, s) ==
    [val |-> Override(o, d, s).val, err |-> NoError]

recordMerger(o, d, s) == Override(o, d, s)

\* The Merger of a field (structmerge.go:127-131): the field is left as the
\* call leaves it and the call's error is not looked at.
fieldMerger(o, d, s) == Override(o, d, s).val

(***************************************************************************)
(* mergeValues (structmerge.go:66-161).  d and s are reflect Values, c the *)
(* Config, prefix the path prefix, o the behaviour of the Merger           *)
(* implementations.  The result is the destination Value after the call    *)
(* (its pointee is changed in place) and what the call returned.           *)
(* mergeFields is the loop over the fields from index i on.                *)
(***************************************************************************)
RECURSIVE mergeValues(_, _, _, _, _)
RECURSIVE mergeFields(_, _, _, _, _, _, _)

mergeFields(T, d, s, c, prefix, o, i) ==
    IF i > NumField(T) THEN [val |-> d, err |-> NoError]
    ELSE
      LET field == Fields(T)[i]
          fullFieldName == prefix \o field.Name
          continue(d2) == mergeFields(T, d2, s, c, prefix, o, i + 1)
      IN  IF c.Include # {} /\ ~shouldInclude(fullFieldName, c.Include)
            THEN continue(d)
          ELSE IF excluded(fullFieldName, c)
            THEN continue(d)
          ELSE IF Implements(field.Type)
            THEN \* dstField.Addr().Interface() panics on an unexported field
                 IF ~field.Exported
                   THEN [val |-> d, err |-> Panic]
                   ELSE continue([d EXCEPT ![i] = fieldMerger(o, d[i], s[i])])
          ELSE IF ~CanSet(field)
            THEN continue(d)
          ELSE IF field.Kind = "Struct"
            THEN LET r == mergeValues(Addr(field.Type, d[i]),
                                      StructValue(field.Type, s[i]),
                                      c, fullFieldName \o Dot, o)
                     d2 == [d EXCEPT ![i] = r.dst.val]
                 IN  IF r.err # NoError
                       THEN [val |-> d2, err |-> r.err]
                       ELSE continue(d2)
          ELSE IF shouldSet(c.Option, field.Kind, d[i], s[i])
            THEN continue([d EXCEPT ![i] = Set(d[i], s[i])])
          ELSE continue(d)

mergeValues(d, s, c, prefix, o) ==
    LET e == checkArguments(d, s)
    IN  IF e # NoError THEN [dst |-> d, err |-> e]
        ELSE IF IsTime(d.typ)
          THEN [dst |-> [d EXCEPT !.val = Set(d.val, s.val)], err |-> NoError]
        ELSE IF Implements(d.typ)
          THEN LET r == recordMerger(o, d.val, s.val)
               IN  [dst |-> [d EXCEPT !.val = r.val], err |-> r.err]
        ELSE LET r == mergeFields(d.typ, d.val, s.val, c, prefix, o, 1)
             IN  [dst |-> [d EXCEPT !.val = r.val], err |-> r.err]

\* Merge (structmerge.go:58-64)
Merge(d, s, cfgArgs, o) == mergeValues(d, s, DefaultConfig(cfgArgs), << >>, o)

(***************************************************************************)
(* The inputs.  Every leaf of the destination is drawn from an empty and a *)
(* non-empty value of its kind, every leaf of the source from an empty and *)
(* another non-empty value, so that a field that was overwritten can be    *)
(* told from one that kept its value.                                      *)
(***************************************************************************)
Low(kind, side) == IF kind \in {"Slice", "Map"} /\ side = "src" THEN 1 ELSE 0

High(kind, side) ==
    CASE kind \in {"Slice", "Map"} -> IF side = "src" THEN 3 ELSE 2
      [] kind = "Bool" -> 1
      [] OTHER -> IF side = "src" THEN 2 ELSE 1

LeafValues(kind, side, picks) ==
    {Low(kind, side) : p \in picks \cap {"low"}}
        \cup {High(kind, side) : p \in picks \cap {"high"}}

RECURSIVE StructValues(_, _, _)
RECURSIVE FieldSeqs(_, _, _, _)

\* The values of type T: those of an opaque type are numbers.
StructValues(T, side, picks) ==
    IF Opaque(T) THEN LeafValues("Opaque", side, picks)
    ELSE FieldSeqs(T, side, picks, NumField(T))

FieldSeqs(T, side, picks, n) ==
    IF n = 0 THEN {<< >>}
    ELSE LET field == Fields(T)[n]
             vs == IF field.Kind = "Struct"
                     THEN StructValues(field.Type, side, picks)
                     ELSE LeafValues(field.Kind, side, picks)
         IN  {Append(sq, v) : sq \in FieldSeqs(T, side, picks, n - 1), v \in vs}

Both == {"low", "high"}

RECURSIVE Paths(_, _)
\* The qualified paths of the fields of T, at every depth.
Paths(T, prefix) ==
    UNION { {prefix \o Fields(T)[i].Name}
              \cup Paths(Fields(T)[i].Type, prefix \o Fields(T)[i].Name \o Dot)
            : i \in 1..NumField(T) }

\* The record types Merge is called on with filters, and without.
FilteredTypes == {"Person", "Plan", "Vault"}
MergeTypes == FilteredTypes \cup {"Kinds", "Date", "Time"}

\* The types whose walk reaches a Merger implementation.
HasMerger(T) == T \in {"Plan", "Date"}

UpTo(S, n) == {X \in SUBSET S : Cardinality(X) <= n}

Filters(T) ==
    IF T \in FilteredTypes
      THEN {<<i, x>> : i \in UpTo(Paths(T, << >>), MaxInclude),
                       x \in UpTo(Paths(T, << >>), MaxExclude)}
      ELSE {<<{}, {}>>}

\* The cfg ...Config arguments: none, or one Config.
ConfigArgs(T) ==
    {<< >>} \cup {<<Config(op, f[1], f[2])>> : op \in MergeOption, f \in Filters(T)}

Unfiltered(cfgArgs) ==
    DefaultConfig(cfgArgs).Include = {} /\ DefaultConfig(cfgArgs).Exclude = {}

\* With filters the leaves of a record are all empty or all non-empty;
\* without, they vary one by one.
Picks(cfgArgs) == IF Unfiltered(cfgArgs) THEN {Both} ELSE {{"low"}, {"high"}}

NoOverride == [sets |-> "copy", fails |-> FALSE]

\* Calls whose arguments pass the checks.
ValidCall ==
    \E T \in MergeTypes :
      \E ca \in ConfigArgs(T) :
        \E dp \in Picks(ca), sp \in Picks(ca) :
          \E dv \in StructValues(T, "dst", dp), sv \in StructValues(T, "src", sp) :
            /\ dst = Value("ptr", T, FALSE, dv)
            /\ src = StructValue(T, sv)
            /\ cfg = ca
            /\ ov \in IF HasMerger(T) THEN Overrides ELSE {NoOverride}

(***************************************************************************)
(* Calls with every shape of destination and source argument.              *)
(***************************************************************************)
FooValue(side) == <<High("String", side)>>

DstArguments ==
    { Value("invalid", "", FALSE, << >>),
      Value("int", "int", FALSE, << >>),
      Value("ptrint", "int", FALSE, << >>),
      Value("struct", "Foo", FALSE, FooValue("dst")),
      Value("ptr", "Foo", TRUE, << >>),
      Value("ptrptr", "Foo", TRUE, << >>),
      Value("ptrptr", "Foo", FALSE, FooValue("dst")),
      Value("ptr", "Foo", FALSE, FooValue("dst")),
      Value("ptr", "Date", FALSE, 1) }

SrcArguments ==
    { Value("invalid", "", FALSE, << >>),
      Value("int", "int", FALSE, << >>),
      Value("ptr", "Foo", FALSE, FooValue("src")),
      Value("ptr", "Foo", TRUE, << >>),
      Value("struct", "Foo", FALSE, FooValue("src")),
      Value("struct", "Geo", FALSE, <<2>>),
      Value("struct", "Date", FALSE, 2) }

ShapeCall ==
    /\ dst \in DstArguments
    /\ src \in SrcArguments
    /\ cfg \in {<< >>} \cup {<<Config(op, {}, {})>> : op \in MergeOption}
    /\ ov \in {NoOverride, [sets |-> "keep", fails |-> TRUE]}

(***************************************************************************)
(* The state machine: a caller holds dst, src and cfg and calls Merge up   *)
(* to MaxCalls times; pre is the destination before the last call, err     *)
(* what the last call returned.                                            *)
(***************************************************************************)
Init ==
    /\ ValidCall \/ ShapeCall
    /\ pre = dst
    /\ err = NotCalled
    /\ calls = 0

CallMerge ==
    /\ calls < MaxCalls
    /\ err # Panic
    /\ LET r == Merge(dst, src, cfg, ov)
       IN  /\ dst' = r.dst
           /\ err' = r.err
    /\ pre' = dst
    /\ calls' = calls + 1
    /\ UNCHANGED <<src, cfg, ov>>

Next == CallMerge

Spec == Init /\ [][Next]_vars

(***************************************************************************)
(* Vocabulary of the properties.  A field of a record type is named by its *)
(* index path: the field indices from the top-level record down.           *)
(***************************************************************************)
RECURSIVE IndexPaths(_)
IndexPaths(T) ==
    UNION { {<<i>>} \cup {<<i>> \o p : p \in IndexPaths(Fields(T)[i].Type)}
            : i \in 1..NumField(T) }

RECURSIVE FieldAt(_, _)
FieldAt(T, ip) ==
    IF Len(ip) = 1 THEN Fields(T)[ip[1]]
    ELSE FieldAt(Fields(T)[ip[1]].Type, Tail(ip))

RECURSIVE ValueAt(_, _)
ValueAt(v, ip) == IF ip = << >> THEN v ELSE ValueAt(v[Head(ip)], Tail(ip))

\* prefix + fieldName along the path (structmerge.go:112, 141)
RECURSIVE QualifiedPath(_, _)
QualifiedPath(T, ip) ==
    IF Len(ip) = 1 THEN Fields(T)[ip[1]].Name
    ELSE Fields(T)[ip[1]].Name \o Dot
            \o QualifiedPath(Fields(T)[ip[1]].Type, Tail(ip))

\* The index paths of the records that enclose field ip.
Enclosing(ip) == {SubSeq(ip, 1, k) : k \in 1..(Len(ip) - 1)}

\* A field is settable when it and every record enclosing it are exported.
Settable(T, ip) ==
    \A k \in 1..Len(ip) : FieldAt(T, SubSeq(ip, 1, k)).Exported

IsLeaf(T, ip) == FieldAt(T, ip).Kind # "Struct"

\* A leaf, or a record the walk does not open (time.Time, a Merger).
IsTerminal(T, ip) == IsLeaf(T, ip) \/ Opaque(FieldAt(T, ip).Type)

\* What each policy is specified to leave in a leaf field.
PolicyResult(option, kind, d, s) ==
    CASE option = ExcludeEmpty -> IF isZero(kind, s) THEN d ELSE s
      [] option = OverwriteEmpty -> IF isZero(kind, d) THEN s ELSE d
      [] OTHER -> s

\* The state after a call whose arguments were a non-nil pointer to a
\* record and a record of the same type.
Called == calls >= 1
PointsToStruct(v) == v.shape = "ptr" /\ ~v.isnil
IsStruct(v) == v.shape = "struct"
ValidArguments == PointsToStruct(pre) /\ IsStruct(src) /\ pre.typ = src.typ
Returned == Called /\ ValidArguments /\ err = NoError
Walked == Returned /\ ~Implements(pre.typ) /\ ~IsTime(pre.typ)
UsedConfig == DefaultConfig(cfg)
TypeOfCall == pre.typ
Before(ip) == ValueAt(pre.val, ip)
After(ip) == ValueAt(dst.val, ip)
Source(ip) == ValueAt(src.val, ip)
KindOf(ip) == FieldAt(TypeOfCall, ip).Kind
PathOf(ip) == QualifiedPath(TypeOfCall, ip)

(***************************************************************************)
(* C1.  Merge checks its arguments in a fixed order and returns the first  *)
(* failure: a destination that is not a pointer to a struct gives          *)
(* ErrInvalidDestination whatever the source is; otherwise a source that   *)
(* is not a struct value gives ErrInvalidSource; otherwise different types *)
(* give ErrTypeMismatch; and when the three checks pass, the field walk    *)
(* returns none of the three errors.  (A nil pointer points to no struct;  *)
(* the case is C2's.)                                                      *)
(***************************************************************************)
ArgumentErrors == {ErrInvalidDestination, ErrInvalidSource, ErrTypeMismatch}

C1_ArgumentCheckOrder ==
    Called =>
        IF ~PointsToStruct(pre) THEN err = ErrInvalidDestination
        ELSE IF ~IsStruct(src) THEN err = ErrInvalidSource
        ELSE IF pre.typ # src.typ THEN err = ErrTypeMismatch
        ELSE ~Implements(pre.typ) => err \notin ArgumentErrors

\* Both arguments are wrong and the destination's error is the one returned.
C1_Witness ==
    /\ Called
    /\ ~PointsToStruct(pre)
    /\ src.shape = "ptr"
    /\ err = ErrInvalidDestination

(***************************************************************************)
(* C2.  Called with a destination whose record is nil (a nil *T, or a **T  *)
(* whose *T is nil) and a source of type T, Merge succeeds and the caller  *)
(* sees a materialised record through the reference it passed.             *)
(***************************************************************************)
NilDestination(v) == v.shape \in {"ptr", "ptrptr"} /\ v.isnil

C2_NilDestinationMaterialised ==
    (Called /\ NilDestination(pre) /\ IsStruct(src) /\ src.typ = pre.typ)
        => (err = NoError /\ ~dst.isnil)

(***************************************************************************)
(* C3.  With the default configuration, after a successful Merge every     *)
(* settable field of the destination, at every depth, equals the source's  *)
(* field, and every unsettable field keeps the value it had.               *)
(***************************************************************************)
DefaultCall == Walked /\ UsedConfig = Config(IncludeAll, {}, {})

C3_Original ==
    DefaultCall =>
        \A ip \in IndexPaths(TypeOfCall) :
            IsTerminal(TypeOfCall, ip) =>
                IF Settable(TypeOfCall, ip) THEN After(ip) = Source(ip)
                ELSE After(ip) = Before(ip)

\* C3 as amended: a settable field whose type implements Merger holds what
\* its override left there; every other settable field equals the source's
\* field; every unsettable field keeps its value.
C3_DefaultCopiesSettableFields ==
    DefaultCall =>
        \A ip \in IndexPaths(TypeOfCall) :
            IsTerminal(TypeOfCall, ip) =>
                IF ~Settable(TypeOfCall, ip) THEN After(ip) = Before(ip)
                ELSE IF Implements(FieldAt(TypeOfCall, ip).Type)
                  THEN After(ip) = Override(ov, Before(ip), Source(ip)).val
                ELSE After(ip) = Source(ip)

\* A record with a private field: the settable leaf was overwritten with a
\* different value and the private one kept its own.
C3_Witness ==
    /\ DefaultCall
    /\ TypeOfCall = "Person"
    /\ Before(<<1>>) # Source(<<1>>) /\ After(<<1>>) = Source(<<1>>)
    /\ Before(<<3, 2, 1>>) # Source(<<3, 2, 1>>)
    /\ After(<<3, 2, 1>>) = Source(<<3, 2, 1>>)
    /\ Before(<<4>>) # Source(<<4>>) /\ After(<<4>>) = Before(<<4>>)

(***************************************************************************)
(* C4.  Under ExcludeEmpty without filters, every settable leaf field, at  *)
(* every depth and each on its own, keeps its value when the source's      *)
(* field is empty and equals the source's field otherwise.                 *)
(***************************************************************************)
SettableLeaves ==
    {ip \in IndexPaths(TypeOfCall) :
        IsLeaf(TypeOfCall, ip) /\ Settable(TypeOfCall, ip)}

C4_ExcludeEmptyPerLeaf ==
    (Walked /\ UsedConfig = Config(ExcludeEmpty, {}, {})) =>
        \A ip \in SettableLeaves :
            IF isZero(KindOf(ip), Source(ip)) THEN After(ip) = Before(ip)
            ELSE After(ip) = Source(ip)

\* Inside one nested record, one leaf was kept (empty source) and its
\* sibling record's leaf overwritten.
C4_Witness ==
    /\ Walked /\ UsedConfig = Config(ExcludeEmpty, {}, {})
    /\ TypeOfCall = "Person"
    /\ Source(<<3, 1>>) = 0 /\ Before(<<3, 1>>) # 0 /\ After(<<3, 1>>) = Before(<<3, 1>>)
    /\ Source(<<3, 2, 1>>) # 0 /\ Before(<<3, 2, 1>>) # Source(<<3, 2, 1>>)
    /\ After(<<3, 2, 1>>) = Source(<<3, 2, 1>>)

FollowsPolicy(ip) ==
    After(ip) = PolicyResult(UsedConfig.Option, KindOf(ip), Before(ip), Source(ip))

NoEnclosingExcluded(ip) ==
    \A e \in Enclosing(ip) : PathOf(e) \notin UsedConfig.Exclude

C6_ListedLeafMerged ==
    (Walked /\ UsedConfig.Include # {}) =>
        \A ip \in SettableLeaves :
            ( /\ PathOf(ip) \in UsedConfig.Include
              /\ PathOf(ip) \notin UsedConfig.Exclude
              /\ NoEnclosingExcluded(ip) )
            => FollowsPolicy(ip)

(***************************************************************************)
(* C7.  With a non-empty include list, a field whose qualified path is not *)
(* listed and is not the path of a record enclosing a listed entry (no     *)
(* entry is that path followed by "." and more) is skipped: it and every   *)
(* leaf below it are the same after Merge as before, under every policy.   *)
(***************************************************************************)
EnclosesListed(path, include) ==
    \E key \in include : HasPrefix(key, path \o Dot) /\ Len(key) > Len(path) + 1

WalkCall == Called /\ ValidArguments /\ ~Implements(pre.typ) /\ ~IsTime(pre.typ)

C7_UnlistedFieldSkipped ==
    (WalkCall /\ UsedConfig.Include # {}) =>
        \A ip \in IndexPaths(TypeOfCall) :
            ( /\ PathOf(ip) \notin UsedConfig.Include
              /\ ~EnclosesListed(PathOf(ip), UsedConfig.Include) )
            => After(ip) = Before(ip)

(***************************************************************************)
(* C8.  A field whose qualified path is listed in exclude is always        *)
(* skipped: it, and every leaf below it when it is a record, is the same   *)
(* after Merge as before, under every policy and include list (also when   *)
(* the same path is listed in include or pulled in by the prefix rule);    *)
(* and excluding a nested path does not stop its siblings from being       *)
(* merged.                                                                 *)
(***************************************************************************)
C8_ExcludedFieldSkipped ==
    /\ WalkCall =>
          \A ip \in IndexPaths(TypeOfCall) :
              PathOf(ip) \in UsedConfig.Exclude => After(ip) = Before(ip)
    /\ (Walked /\ UsedConfig.Include = {}) =>
          \A ip \in SettableLeaves :
              (PathOf(ip) \notin UsedConfig.Exclude /\ NoEnclosingExcluded(ip))
                  => FollowsPolicy(ip)

\* Address.City is excluded and also listed in include, and kept its value;
\* in another call it is excluded alone and its sibling Address.Geo.Lat
\* was overwritten.
C8_Witness ==
    /\ Walked /\ TypeOfCall = "Person"
    /\ PathOf(<<3, 1>>) \in UsedConfig.Exclude
    /\ Before(<<3, 1>>) # Source(<<3, 1>>) /\ After(<<3, 1>>) = Before(<<3, 1>>)
    /\ \/ PathOf(<<3, 1>>) \in UsedConfig.Include
       \/ /\ UsedConfig.Include = {}
          /\ Before(<<3, 2, 1>>) # Source(<<3, 2, 1>>)
          /\ After(<<3, 2, 1>>) = Source(<<3, 2, 1>>)

(***************************************************************************)
(* C9.  Private fields are never altered, whatever their type (leaf,       *)
(* nested record, Merger implementation) and depth, under every policy and *)
(* filter, and Merge still runs to completion.                             *)
(***************************************************************************)
C9_PrivateFieldsUntouched ==
    WalkCall =>
        /\ \A ip \in IndexPaths(TypeOfCall) :
              ~Settable(TypeOfCall, ip) => After(ip) = Before(ip)
        /\ err = NoError

(***************************************************************************)
(* C10.  The error of a Merger reaches the caller only when the Merger is  *)
(* that of the whole top-level record: Merge then returns exactly what the *)
(* override returns and leaves the record as the override left it (no      *)
(* walk, filter or emptiness test).  The error of the Merger of a field    *)
(* is dropped: the later fields are processed as usual and Merge returns   *)
(* nil.                                                                    *)
(***************************************************************************)
Skipped(ip) ==
    \/ UsedConfig.Include # {} /\ ~shouldInclude(PathOf(ip), UsedConfig.Include)
    \/ PathOf(ip) \in UsedConfig.Exclude

C10_MergerErrorOnlyFromRecord ==
    (Called /\ ValidArguments) =>
        /\ Implements(pre.typ) =>
              /\ err = Override(ov, pre.val, src.val).err
              /\ dst.val = Override(ov, pre.val, src.val).val
        /\ err = OverrideError => Implements(pre.typ)
        /\ (~Implements(pre.typ) /\ ~IsTime(pre.typ) /\ err # Panic) =>
              /\ err = NoError
              /\ \A ip \in IndexPaths(TypeOfCall) :
                    (Len(ip) = 1 /\ ~Skipped(ip)) =>
                        IF Implements(FieldAt(TypeOfCall, ip).Type)
                          THEN After(ip) = Override(ov, Before(ip), Source(ip)).val
                        ELSE IF IsTime(FieldAt(TypeOfCall, ip).Type)
                          THEN After(ip) = Source(ip)
                        ELSE IsLeaf(TypeOfCall, ip) /\ Settable(TypeOfCall, ip)
                                => FollowsPolicy(ip)

\* The override of field Date failed after changing it, Merge returned nil,
\* and the later fields At and Data were overwritten.
C10_Witness ==
    /\ Called /\ ValidArguments /\ TypeOfCall = "Plan"
    /\ ov.fails /\ ov.sets = "copy"
    /\ ~Skipped(<<1>>)
    /\ err = NoError
    /\ Before(<<1>>) # Source(<<1>>) /\ After(<<1>>) = Source(<<1>>)
    /\ Before(<<2>>) # Source(<<2>>) /\ After(<<2>>) = Source(<<2>>)
    /\ Before(<<3>>) # Source(<<3>>) /\ After(<<3>>) = Source(<<3>>)

(***************************************************************************)
(* C11.  Merge is idempotent: for every policy, include list and exclude   *)
(* list and every pair of records of one type on which no Merger override  *)
(* runs, a second Merge with the same src and cfg leaves the destination   *)
(* exactly as the first call left it.                                      *)
(***************************************************************************)
C11_MergeIdempotent ==
    (calls >= 2 /\ ValidArguments /\ ~HasMerger(pre.typ)) => dst = pre

\* Under OverwriteEmpty the first call filled Count (only the source holds
\* the value 2) and kept Country against a non-empty source; the second
\* call changed neither.
C11_Witness ==
    /\ calls = 2 /\ ValidArguments /\ TypeOfCall = "Person"
    /\ UsedConfig.Option = OverwriteEmpty
    /\ Source(<<1>>) = 2 /\ After(<<1>>) = 2
    /\ Source(<<2>>) = 2 /\ After(<<2>>) = 1
    /\ dst = pre

====
